---------------------------- MODULE Spec2Model ----------------------------
(* Model of compression.go (package websocket): the permessage-deflate     *)
(* write and read streams, their truncating sink, the sync.Pool free lists *)
(* and the context-takeover factories.                                     *)
EXTENDS Integers, Sequences, FiniteSets, TLC

(***************************************************************************)
(* Bounds of the model.                                                    *)
(***************************************************************************)
\* longest byte sequence written to the stand-alone truncWriter
MaxTotal == 6
\* number of Write calls made on the stand-alone truncWriter
MaxChunks == 4
\* number of streams (messages)
NStreams == 2
\* number of Write, Read and Close calls made on all streams together
MaxCalls == 2
\* round trips: messages per connection, bytes per message, Write calls per
\* message, length of the buffer given to Read, Read and Close calls per
\* message on the read stream
MaxMsgs == 2
MaxPayload == 2
MaxWrites == 2
MaxBuf == 2
MaxReads == 3
\* length of the history window, which stands for the 32 KiB of DEFLATE
WindowSize == 2

(***************************************************************************)
(* Program constants.                                                      *)
(***************************************************************************)
minCompressionLevel == -2
maxCompressionLevel == 9
defaultCompressionLevel == 1

\* the byte values the model distinguishes: the two values of the trailer
\* and one other value
Byte == {0, 7, 255}

\* the byte values of the payloads of the round trips
PayloadByte == {7, 255}

\* [4]byte{0, 0, 0xff, 0xff}
Marker == <<0, 0, 255, 255>>

\* the tail without its final block
tailMarkerOnly == Marker

\* "\x00\x00\xff\xff" + "\x01\x00\x00\xff\xff"
tail == Marker \o <<1, 0, 0, 255, 255>>

isValidCompressionLevel(level) ==
    minCompressionLevel <= level /\ level <= maxCompressionLevel

(***************************************************************************)
(* Helpers on sequences.                                                   *)
(***************************************************************************)
Min(a, b) == IF a < b THEN a ELSE b

\* s[from:] of Go, with from counted from 0
DropFirst(s, k) == SubSeq(s, k + 1, Len(s))

\* s[:k] of Go
TakeFirst(s, k) == SubSeq(s, 1, k)

\* the last k elements of s
TakeLast(s, k) == SubSeq(s, Len(s) - k + 1, Len(s))

\* all sequences over S of length at most n
SeqUpTo(S, n) == UNION {[1..k -> S] : k \in 0..n}

(***************************************************************************)
(* truncWriter: n bytes held in the array p, the rest forwarded to w.      *)
(* A truncWriter value is [n |-> 0..4, p |-> 4 bytes]; its sink w is kept  *)
(* by the owner.  A sink write is given as okWrites: the number of Write   *)
(* calls of the sink that succeed during this call (2: both).              *)
(***************************************************************************)
ZeroTW == [n |-> 0, p |-> <<0, 0, 0, 0>>]

\* copy(dst[at:], src) on a 4-byte array, at counted from 0: the new array
CopyInto(dst, at, src) ==
    [i \in 1..4 |-> IF i > at /\ i - at <= Len(src) THEN src[i - at] ELSE dst[i]]

\* truncWriter.Write without the shift of the held bytes (copy(w.p[:], w.p[m:]))
truncWriterWriteNoShift(w, p, okWrites) ==
    LET n    == IF w.n < 4 THEN Min(4 - w.n, Len(p)) ELSE 0
        p1   == IF w.n < 4 THEN CopyInto(w.p, w.n, TakeFirst(p, n)) ELSE w.p
        rest == DropFirst(p, n)
        n1   == w.n + n
        m    == Min(Len(rest), 4)
    IN  IF w.n < 4 /\ Len(rest) = 0
        THEN [tw |-> [n |-> n1, p |-> p1], out |-> <<>>, ret |-> n, err |-> FALSE,
              sinkWrites |-> 0]
        ELSE IF okWrites = 0
        THEN [tw |-> [n |-> n1, p |-> p1], out |-> <<>>, ret |-> n, err |-> TRUE,
              sinkWrites |-> 1]
        ELSE LET p3 == CopyInto(p1, 4 - m, TakeLast(rest, m))
                 w1 == TakeFirst(p1, m)
                 w2 == TakeFirst(rest, Len(rest) - m)
             IN  IF okWrites = 1
                 THEN [tw |-> [n |-> n1, p |-> p3], out |-> w1, ret |-> n,
                       err |-> TRUE, sinkWrites |-> 2]
                 ELSE [tw |-> [n |-> n1, p |-> p3], out |-> w1 \o w2,
                       ret |-> n + Len(w2), err |-> FALSE, sinkWrites |-> 2]

\* truncWriter.Write(p): the new truncWriter, the bytes the sink accepted, the
\* returned count and whether an error is returned.  A failing sink write
\* accepts no byte and returns (0, err).
truncWriterWrite(w, p, okWrites) ==
    LET n    == IF w.n < 4 THEN Min(4 - w.n, Len(p)) ELSE 0
        p1   == IF w.n < 4 THEN CopyInto(w.p, w.n, TakeFirst(p, n)) ELSE w.p
        rest == DropFirst(p, n)
        n1   == w.n + n
        m    == Min(Len(rest), 4)
    IN  IF w.n < 4 /\ Len(rest) = 0
        THEN [tw |-> [n |-> n1, p |-> p1], out |-> <<>>, ret |-> n, err |-> FALSE,
              sinkWrites |-> 0]
        ELSE IF okWrites = 0
        THEN \* w.w.Write(w.p[:m]) fails: return n + nn, err
             [tw |-> [n |-> n1, p |-> p1], out |-> <<>>, ret |-> n, err |-> TRUE,
              sinkWrites |-> 1]
        ELSE LET p2 == CopyInto(p1, 0, DropFirst(p1, m))
                 p3 == CopyInto(p2, 4 - m, TakeLast(rest, m))
                 w1 == TakeFirst(p1, m)
                 w2 == TakeFirst(rest, Len(rest) - m)
             IN  IF okWrites = 1
                 THEN [tw |-> [n |-> n1, p |-> p3], out |-> w1, ret |-> n,
                       err |-> TRUE, sinkWrites |-> 2]
                 ELSE [tw |-> [n |-> n1, p |-> p3], out |-> w1 \o w2,
                       ret |-> n + Len(w2), err |-> FALSE, sinkWrites |-> 2]

(***************************************************************************)
(* compress/flate, reduced to what the streams rely on.  A flushed stream  *)
(* is a sequence of blocks.  A block starts with a header byte: 0 is a     *)
(* stored block that is not the last, 1 a stored block that is the last,   *)
(* 2 a compressed block.  A stored block goes on with LEN and NLEN; only   *)
(* the empty one (00 00 ff ff) occurs.  A compressed block is a sequence   *)
(* of symbols up to the end-of-block symbol 256: a symbol below 256 is a   *)
(* literal byte, a symbol 256 + d copies the byte d places back in the     *)
(* history.  Flush ends its output with an empty stored block, the sync    *)
(* marker.  Small writes are buffered until Flush, small outputs are       *)
(* handed out when the decompressor has met the end of its input.          *)
(***************************************************************************)
\* the reach of a match: the window of the library
maxMatchOffset == WindowSize

\* the cap of contextTakeoverReaderFactory.window
maxWindowBits == WindowSize

EndOfBlock == 256

\* levels at which the compressor looks for matches (the others, HuffmanOnly
\* and NoCompression, emit literals only)
Matches(level) == level >= 1 \/ level = -1

\* the last bytes of h a match can reach
Reach(h) == TakeLast(h, Min(Len(h), maxMatchOffset))

RECURSIVE Tokens(_, _, _)
\* the symbols for input after history h
Tokens(input, h, match) ==
    IF input = <<>> THEN <<>>
    ELSE LET b   == Head(input)
             w   == Reach(h)
             ds  == {d \in 1..Len(w) : w[Len(w) - d + 1] = b}
             tok == IF match /\ ds # {}
                    THEN EndOfBlock + (CHOOSE d \in ds : \A e \in ds : d <= e)
                    ELSE b
         IN  <<tok>> \o Tokens(Tail(input), h \o <<b>>, match)

\* a compressor: its level, the input it has consumed (its history) and the
\* input not yet put out
NewFlateWriter(level) == [level |-> level, hist |-> <<>>, pending |-> <<>>]

\* flate.Writer.Write(p)
FlateWrite(fw, p) == [fw EXCEPT !.pending = @ \o p]

\* flate.Writer.Flush(): the bytes handed to the underlying writer
FlateFlushOutput(fw) ==
    (IF fw.pending = <<>> THEN <<>>
     ELSE <<2>> \o Tokens(fw.pending, fw.hist, Matches(fw.level)) \o <<EndOfBlock>>)
    \o <<0>> \o Marker

\* flate.Writer.Flush(): the compressor afterwards
FlateFlushed(fw) ==
    [fw EXCEPT !.hist = Reach(fw.hist \o fw.pending), !.pending = <<>>]

RECURSIVE InflateBlocks(_, _, _)
RECURSIVE InflateSymbols(_, _, _)
\* the decompressor at a block header
InflateBlocks(input, h, out) ==
    IF input = <<>> THEN [out |-> out, err |-> "ErrUnexpectedEOF"]
    ELSE LET hd == Head(input)
             rest == Tail(input)
         IN  IF hd \in {0, 1}
             THEN IF Len(rest) < 4 THEN [out |-> out, err |-> "ErrUnexpectedEOF"]
                  ELSE IF TakeFirst(rest, 4) # Marker
                  THEN [out |-> out, err |-> "errCorrupt"]
                  ELSE IF hd = 1 THEN [out |-> out, err |-> "EOF"]
                  ELSE InflateBlocks(DropFirst(rest, 4), h, out)
             ELSE IF hd = 2 THEN InflateSymbols(rest, h, out)
             ELSE [out |-> out, err |-> "errCorrupt"]

\* the decompressor inside a compressed block
InflateSymbols(input, h, out) ==
    IF input = <<>> THEN [out |-> out, err |-> "ErrUnexpectedEOF"]
    ELSE LET t == Head(input)
         IN  IF t = EndOfBlock THEN InflateBlocks(Tail(input), h, out)
             ELSE IF t < EndOfBlock
             THEN InflateSymbols(Tail(input), h \o <<t>>, out \o <<t>>)
             ELSE LET d == t - EndOfBlock
                  IN  IF d > Len(Reach(h)) THEN [out |-> out, err |-> "errCorrupt"]
                      ELSE LET b == h[Len(h) - d + 1]
                           IN  InflateSymbols(Tail(input), h \o <<b>>, out \o <<b>>)

\* flate.Resetter.Reset(r, dict): a decompressor on input r with the preset
\* dictionary dict
FlateReset(r, dict) == [input |-> r, dict |-> Reach(dict), toRead |-> <<>>, err |-> "nil"]

\* Read(b) with len(b) = k on decompressor fr: the decompressor afterwards,
\* the bytes read and the error
FlateRead(fr, k) ==
    LET d  == InflateBlocks(fr.input, fr.dict, <<>>)
        f1 == IF fr.toRead = <<>> /\ fr.err = "nil"
              THEN [fr EXCEPT !.input = <<>>, !.toRead = d.out, !.err = d.err]
              ELSE fr
        n  == Min(k, Len(f1.toRead))
    IN  [fr   |-> [f1 EXCEPT !.toRead = DropFirst(@, n)],
         data |-> TakeFirst(f1.toRead, n),
         err  |-> IF n = Len(f1.toRead) THEN f1.err ELSE "nil"]

\* Close() of the decompressor: its error, unless that is io.EOF
FlateClose(fr) == IF fr.err = "EOF" THEN "nil" ELSE fr.err

\* the window after data is appended to it and nothing dropped
AppendWindowNoTrim(window, data) == window \o data

\* newDeCompressionReader without the window
takeoverResetNoDict(r, window) == FlateReset(r \o tail, <<>>)

\* newDeCompressionReader, line 217: f.fr is reset onto r followed by tail,
\* with f.window as preset dictionary
takeoverReset(r, window) == FlateReset(r \o tail, window)

\* Read, lines 229-233: the window after data is appended to it
AppendWindow(window, data) ==
    LET w == window \o data
    IN  IF Len(w) > maxWindowBits THEN DropFirst(w, Len(w) - maxWindowBits) ELSE w

(***************************************************************************)
(* The streams.  Stream s is one message: its caller opens it once, as a   *)
(* transient write stream ("cw", compressNoContextTakeover), a persistent  *)
(* write stream ("tcw", contextTakeoverWriterFactory.newCompressionWriter) *)
(* or a transient read stream ("dr", decompressNoContextTakeover), then    *)
(* calls Write / Read / Close on it.  Callers of different streams run     *)
(* concurrently; the calls on one stream are sequential.  Stream s writes  *)
(* to its own sink sinks[s].                                               *)
(***************************************************************************)
Streams == 1..NStreams

\* the levels the callers of the model ask for
Levels == {minCompressionLevel, maxCompressionLevel}

\* one pool for all levels
PoolIndexShared(level) == 0

\* index of the pool of a level: flateWriterPools[level-minCompressionLevel]
PoolIndex(level) == level - minCompressionLevel

PoolIndices == 0..(maxCompressionLevel - minCompressionLevel)

\* what a compressor hands to its truncWriter while the caller writes, and on
\* Flush.  <<>> is no call of truncWriter.Write at all.  The output of a
\* flushed flate stream ends with the sync marker after the last header bits;
\* a compressor that hands over nothing on Flush breaks this contract.
WriteOutputs == {<<>>, <<7>>}
FlushOutputs == {<<0>> \o Marker, <<>>}

VARIABLES
    \* a truncWriter on its own, written to in chunks: the truncWriter, the
    \* bytes its sink received, the bytes written to it, the last call's
    \* result and the number of calls
    utw, usink, uwritten, uret, uchunks,
    pc,                \* position of the caller of each stream
    kind,              \* "none" before the stream is opened, then its kind
    lvl,               \* the level asked for
    wfw,               \* flateWriteWrapper.fw / flateTakeoverWriteWrapper.f /
                       \* flateReadWrapper.fr: an instance, or 0 for nil
    wp,                \* flateWriteWrapper.p: the index of the pool
    tws,               \* flateWriteWrapper.tw: the truncWriter of the stream
    sinks,             \* the io.WriteCloser of the stream
    err1,              \* err1 of a Close in progress
    res,               \* the last call that returned on the stream
    closed,            \* a Close of the stream has returned, or a Read of it
                       \* has returned io.EOF
    writers,           \* the flate.Writer instances of the transient streams
    flateWriterPools,  \* per pool index, the instances in the pool
    readers,           \* the flate readers
    flateReaderPool,   \* the instances in the reader pool
    wf,                \* the contextTakeoverWriterFactory of the connection
    puts,              \* per stream, the Put calls made for its instance
    given,             \* per persistent write stream, the bytes its compressor
                       \* has handed to the truncWriter
    \* one connection direction whose messages are compressed, sent and
    \* decompressed one after the other
    rtMode,            \* "transient" or "persistent"
    rtLevel,           \* the level of the connection
    rtPhase,           \* "idle", "writing", "wire" (written, not yet read), "reading"
    rtMsgs,            \* the messages done
    rtPayload,         \* the bytes written to the write stream of the message
    rtWritten,         \* the bytes written to the streams of the writer
                       \* factory, over all messages
    rtWrites,          \* the Write calls of the message
    rtFw,              \* the compressor
    rtTw,              \* its truncWriter
    rtSink,            \* the bytes the sink of the message received
    rtW,               \* the field fw / f of the write stream (0: nil)
    rtFr,              \* the decompressor
    rtR,               \* the field fr of the transient read stream, the field
                       \* fr of the factory of the persistent one (0: nil)
    rtWindow,          \* contextTakeoverReaderFactory.window
    rtAll,             \* the bytes the Reads of that factory's streams have
                       \* returned, over all messages
    rtOut,             \* the bytes read from the read stream of the message
    rtEOF,             \* a Read of the message has returned io.EOF
    rtClosed,          \* that, or a Close of the read stream has returned
    rtRes              \* the last call that returned

twVars == <<utw, usink, uwritten, uret, uchunks>>

rtVars == <<rtMode, rtLevel, rtPhase, rtMsgs, rtPayload, rtWritten, rtWrites,
            rtFw, rtTw,
            rtSink, rtW, rtFr, rtR, rtWindow, rtAll, rtOut, rtEOF, rtClosed,
            rtRes>>

vars == <<utw, usink, uwritten, uret, uchunks, pc, kind, lvl, wfw, wp, tws, sinks,
          err1, res, closed, writers, flateWriterPools, readers,
          flateReaderPool, wf, puts, given, rtMode, rtLevel, rtPhase, rtMsgs, rtPayload,
          rtWritten,
          rtWrites, rtFw, rtTw, rtSink, rtW, rtFr, rtR, rtWindow, rtAll, rtOut,
          rtEOF, rtClosed, rtRes>>

mainVars == <<pc, kind, lvl, wfw, wp, tws, sinks, err1, res, closed, writers,
              flateWriterPools, readers, flateReaderPool, wf, puts, given>>

NoRes == [op |-> "none", err |-> "nil", calls |-> 0, open |-> FALSE,
          flushErr |-> "nil", trailer |-> <<>>, sinkClosed |-> FALSE,
          closeErr |-> "nil"]

\* an instance not made yet.  A compressor has its level, the stream dst
\* whose truncWriter it writes to, its sticky error and hist, the streams
\* whose bytes it has taken in since it was made or reset.  A decompressor
\* has the stream src it reads from, the suffix that follows the source, its
\* preset dictionary, its state, the Close calls made on it and hist, the
\* streams whose bytes it has put out since it was reset.
NoWriter == [made |-> FALSE, level |-> 0, dst |-> 0, err |-> FALSE, hist |-> {}]
NoReader == [made |-> FALSE, src |-> 0, suffix |-> <<>>, dict |-> <<>>,
             st |-> "open", closes |-> 0, hist |-> {}]

\* flate.NewWriter(tw, level), tw the truncWriter of stream s
flateNewWriter(s, level) ==
    [made |-> TRUE, level |-> level, dst |-> s, err |-> FALSE, hist |-> {}]

\* a pooled compressor used as it comes out of the pool
flateWriterResetNone(w, s) == w

\* fw.Reset(tw), tw the truncWriter of stream s
flateWriterReset(w, s) == [w EXCEPT !.dst = s, !.err = FALSE, !.hist = {}]

\* fr.Reset(io.MultiReader(r, strings.NewReader(tail)), nil), r the source of
\* stream s
flateReaderReset(r, s) ==
    [made |-> TRUE, src |-> s, suffix |-> tail, dict |-> <<>>, st |-> "open",
     closes |-> r.closes, hist |-> {}]

\* the sink sk after a call on stream s made it accept the bytes out
SinkWrite(sk, out, s) ==
    [sk EXCEPT !.data = @ \o out, !.from = IF out = <<>> THEN @ ELSE @ \cup {s}]

\* newCompressionWriter with a fresh truncWriter
truncWriterRebindFresh(tw) == ZeroTW

\* newCompressionWriter, lines 176-177: f.tw.w = w (the owner keeps the sink)
\* and f.tw.n = 0
truncWriterRebind(tw) == [tw EXCEPT !.n = 0]

\* the first instance not made yet
NewId(insts) == CHOOSE i \in Streams : ~insts[i].made /\ \A j \in 1..(i - 1) : insts[j].made

\* sync.Pool.Get taking instance i out of the pool without removing it
PoolGetKeep(pool, i) == pool

\* sync.Pool.Get: instance i leaves the pool (i = 0: the pool gave nothing)
PoolGet(pool, i) == pool \ {i}

\* sync.Pool.Put that drops the instance
PoolPutNone(pool, i) == pool

\* sync.Pool.Put
PoolPut(pool, i) == pool \cup {i}

\* w.fw == nil, w.f == nil
writerClosed(fw) == fw = 0

\* r.fr == nil
readerClosed(fr) == fr = 0

\* the trailer check on the first two bytes only
trailerOKFirstTwo(p) == TakeFirst(p, 2) = TakeFirst(Marker, 2)

\* w.tw.p == [4]byte{0, 0, 0xff, 0xff}
trailerOK(p) == p = Marker

\* a compressor with sticky error fwerr handing chunk to truncWriter tw
Emit(fwerr, tw, chunk, okWrites) ==
    IF fwerr THEN [tw |-> tw, out |-> <<>>, err |-> TRUE]
    ELSE IF chunk = <<>> THEN [tw |-> tw, out |-> <<>>, err |-> FALSE]
    ELSE LET r == truncWriterWrite(tw, chunk, okWrites)
         IN  [tw |-> r.tw, out |-> r.out, err |-> r.err]

\* the factory of a connection: its compressor, without an error so far, and
\* its truncWriter, whose sink is set by newCompressionWriter
NewWriterFactory == [fwerr |-> FALSE, tw |-> ZeroTW, w |-> 0]

InitStreams ==
    /\ pc = [s \in Streams |-> "idle"]
    /\ kind = [s \in Streams |-> "none"]
    /\ lvl = [s \in Streams |-> 0]
    /\ wfw = [s \in Streams |-> 0]
    /\ wp = [s \in Streams |-> 0]
    /\ tws = [s \in Streams |-> ZeroTW]
    /\ sinks = [s \in Streams |-> [data |-> <<>>, closes |-> 0, from |-> {}]]
    /\ err1 = [s \in Streams |-> "nil"]
    /\ res = [s \in Streams |-> NoRes]
    /\ closed = [s \in Streams |-> FALSE]
    /\ writers = [i \in Streams |-> NoWriter]
    /\ flateWriterPools = [k \in PoolIndices |-> {}]
    /\ readers = [i \in Streams |-> NoReader]
    /\ flateReaderPool = {}
    /\ wf = NewWriterFactory
    /\ puts = [s \in Streams |-> 0]
    /\ given = [s \in Streams |-> <<>>]
    /\ utw = ZeroTW
    /\ usink = <<>>
    /\ uwritten = <<>>
    /\ uret = [n |-> 0, err |-> FALSE, len |-> 0, before |-> 0]
    /\ uchunks = 0

\* the connection before its first message: the compressor and the
\* decompressor of the factories, the empty window
InitConnection ==
    /\ rtPhase = "idle"
    /\ rtMsgs = 0
    /\ rtPayload = <<>>
    /\ rtWritten = <<>>
    /\ rtWrites = 0
    /\ rtFw = NewFlateWriter(rtLevel)
    /\ rtTw = ZeroTW
    /\ rtSink = <<>>
    /\ rtW = 0
    /\ rtFr = FlateReset(<<>>, <<>>)
    /\ rtR = 1
    /\ rtWindow = <<>>
    /\ rtAll = <<>>
    /\ rtOut = <<>>
    /\ rtEOF = FALSE
    /\ rtClosed = FALSE
    /\ rtRes = [op |-> "none", err |-> "nil", calls |-> 0]

Init ==
    /\ InitStreams
    /\ rtMode = "transient"
    /\ rtLevel = defaultCompressionLevel
    /\ InitConnection

InitRT ==
    /\ InitStreams
    /\ rtMode \in {"transient", "persistent"}
    /\ rtLevel \in Levels
    /\ InitConnection

RECURSIVE SumCalls(_)
SumCalls(n) == IF n = 0 THEN 0 ELSE res[n].calls + SumCalls(n - 1)

\* the calls made so far on all streams
CallsMade == SumCalls(NStreams)

\* stream s is the next one to open: the streams are opened in the order of
\* their numbers, which are only names
NextToOpen(s) == pc[s] = "idle" /\ \A t \in 1..(s - 1) : pc[t] # "idle"

Returned(s, op, err) ==
    [NoRes EXCEPT !.op = op, !.err = err, !.calls = res[s].calls + 1]

(***************************************************************************)
(* Transient write stream.                                                 *)
(***************************************************************************)
compressNoContextTakeover(s, level) ==
    /\ NextToOpen(s)
    /\ isValidCompressionLevel(level)
    /\ \E i \in flateWriterPools[PoolIndex(level)] \cup {0} :
          LET fw == IF i = 0 THEN NewId(writers) ELSE i
          IN  /\ flateWriterPools' =
                    [flateWriterPools EXCEPT ![PoolIndex(level)] = PoolGet(@, i)]
              /\ writers' = [writers EXCEPT ![fw] =
                    IF i = 0 THEN flateNewWriter(s, level)
                    ELSE flateWriterReset(@, s)]
              /\ wfw' = [wfw EXCEPT ![s] = fw]
    /\ tws' = [tws EXCEPT ![s] = ZeroTW]
    /\ wp' = [wp EXCEPT ![s] = PoolIndex(level)]
    /\ lvl' = [lvl EXCEPT ![s] = level]
    /\ kind' = [kind EXCEPT ![s] = "cw"]
    /\ pc' = [pc EXCEPT ![s] = "ready"]
    /\ UNCHANGED <<sinks, err1, res, closed, readers, flateReaderPool, wf, puts,
                   given, twVars, rtVars>>

flateWriteWrapperWrite(s) ==
    /\ pc[s] = "ready" /\ kind[s] = "cw"
    /\ CallsMade < MaxCalls
    /\ IF writerClosed(wfw[s])
       THEN /\ res' = [res EXCEPT ![s] = Returned(s, "Write", "errWriteClosed")]
            /\ UNCHANGED <<tws, sinks, writers>>
       ELSE \E chunk \in WriteOutputs, ok \in 0..2 :
               LET fw == wfw[s]
                   d  == writers[fw].dst
                   r  == Emit(writers[fw].err, tws[d], chunk, ok)
               IN  /\ tws' = [tws EXCEPT ![d] = r.tw]
                   /\ sinks' = [sinks EXCEPT ![d] = SinkWrite(@, r.out, s)]
                   /\ writers' = [writers EXCEPT ![fw].err = r.err,
                                                 ![fw].hist = @ \cup {s}]
                   /\ res' = [res EXCEPT ![s] =
                         [Returned(s, "Write", IF r.err THEN "errSinkWrite" ELSE "nil")
                            EXCEPT !.open = TRUE]]
    /\ UNCHANGED <<pc, kind, lvl, wfw, wp, err1, closed, flateWriterPools,
                   readers, flateReaderPool, wf, puts, given, twVars, rtVars>>

\* w.fw = nil left out
fwNilKept(fw) == fw

\* w.fw = nil: the field after the assignment
fwNil(fw) == 0

\* r.fr = nil left out
frNilKept(fr) == fr

\* r.fr = nil: the field after the assignment
frNil(fr) == 0

\* Close, lines 108-114: the closed check, w.fw.Flush(), w.p.Put(w.fw) and
\* w.fw = nil.  The Put is the only access to state shared between streams.
flateWriteWrapperCloseFlushPut(s) ==
    /\ pc[s] = "ready" /\ kind[s] = "cw"
    /\ CallsMade < MaxCalls
    /\ IF writerClosed(wfw[s])
       THEN /\ res' = [res EXCEPT ![s] = Returned(s, "Close", "errWriteClosed")]
            /\ closed' = [closed EXCEPT ![s] = TRUE]
            /\ UNCHANGED <<pc, tws, sinks, writers, err1, wfw, flateWriterPools,
                           puts>>
       ELSE \E chunk \in FlushOutputs, ok \in 0..2 :
               LET fw == wfw[s]
                   d  == writers[fw].dst
                   r  == Emit(writers[fw].err, tws[d], chunk, ok)
               IN  /\ tws' = [tws EXCEPT ![d] = r.tw]
                   /\ sinks' = [sinks EXCEPT ![d] = SinkWrite(@, r.out, s)]
                   /\ writers' = [writers EXCEPT ![fw].err = r.err]
                   /\ puts' = [puts EXCEPT ![s] = @ + 1]
                   /\ err1' = [err1 EXCEPT ![s] = IF r.err THEN "errSinkWrite" ELSE "nil"]
                   /\ flateWriterPools' =
                         [flateWriterPools EXCEPT ![wp[s]] = PoolPut(@, fw)]
                   /\ wfw' = [wfw EXCEPT ![s] = fwNil(fw)]
                   /\ pc' = [pc EXCEPT ![s] = "released"]
                   /\ UNCHANGED <<res, closed>>
    /\ UNCHANGED <<kind, lvl, wp, readers, flateReaderPool, wf, given, twVars,
                   rtVars>>

\* Close, lines 116-128: the trailer check, the reset of the truncWriter,
\* w.tw.w.Close() and the returned error
flateWriteWrapperCloseFinish(s) ==
    /\ pc[s] = "released"
    /\ IF ~trailerOK(tws[s].p)
       THEN /\ res' = [res EXCEPT ![s] =
                 [Returned(s, "Close", "errInternal") EXCEPT !.open = TRUE,
                    !.flushErr = err1[s], !.trailer = tws[s].p]]
            /\ UNCHANGED <<tws, sinks>>
       ELSE \E err2 \in {"nil", "errSinkClose"} :
            /\ tws' = [tws EXCEPT ![s] = ZeroTW]
            /\ sinks' = [sinks EXCEPT ![s].closes = @ + 1]
            /\ res' = [res EXCEPT ![s] =
                 [Returned(s, "Close", IF err1[s] # "nil" THEN err1[s] ELSE err2)
                    EXCEPT !.open = TRUE, !.flushErr = err1[s],
                           !.trailer = tws[s].p, !.sinkClosed = TRUE,
                           !.closeErr = err2]]
    /\ err1' = [err1 EXCEPT ![s] = "nil"]
    /\ pc' = [pc EXCEPT ![s] = "ready"]
    /\ closed' = [closed EXCEPT ![s] = TRUE]
    /\ UNCHANGED <<kind, lvl, wfw, wp, writers, flateWriterPools, readers,
                   flateReaderPool, wf, puts, given, twVars, rtVars>>

(***************************************************************************)
(* Persistent write stream.  The factory's compressor writes to the        *)
(* factory's truncWriter wf.tw, whose sink is that of stream wf.w.         *)
(***************************************************************************)
\* The caller has one message in flight per direction: the stream of the
\* message before has been closed.
newCompressionWriter(s) ==
    /\ NextToOpen(s)
    /\ \A t \in Streams : kind[t] = "tcw" => writerClosed(wfw[t])
    /\ wf' = [wf EXCEPT !.w = s, !.tw = truncWriterRebind(@)]
    /\ wfw' = [wfw EXCEPT ![s] = 1]
    /\ kind' = [kind EXCEPT ![s] = "tcw"]
    /\ pc' = [pc EXCEPT ![s] = "ready"]
    /\ UNCHANGED <<lvl, wp, tws, sinks, err1, res, closed, writers,
                   flateWriterPools, readers, flateReaderPool, puts, given, twVars,
                   rtVars>>

flateTakeoverWriteWrapperWrite(s) ==
    /\ pc[s] = "ready" /\ kind[s] = "tcw"
    /\ CallsMade < MaxCalls
    /\ IF writerClosed(wfw[s])
       THEN /\ res' = [res EXCEPT ![s] = Returned(s, "Write", "errWriteClosed")]
            /\ UNCHANGED <<wf, sinks, given>>
       ELSE \E chunk \in WriteOutputs, ok \in 0..2 :
               LET r == Emit(wf.fwerr, wf.tw, chunk, ok)
               IN  /\ wf' = [wf EXCEPT !.tw = r.tw, !.fwerr = r.err]
                   /\ sinks' = [sinks EXCEPT ![wf.w] = SinkWrite(@, r.out, s)]
                   /\ given' = [given EXCEPT ![wf.w] =
                         IF wf.fwerr THEN @ ELSE @ \o chunk]
                   /\ res' = [res EXCEPT ![s] =
                         [Returned(s, "Write", IF r.err THEN "errSinkWrite" ELSE "nil")
                            EXCEPT !.open = TRUE]]
    /\ UNCHANGED <<pc, kind, lvl, wfw, wp, tws, err1, closed, writers,
                   flateWriterPools, readers, flateReaderPool, puts, twVars, rtVars>>

flateTakeoverWriteWrapperClose(s) ==
    /\ pc[s] = "ready" /\ kind[s] = "tcw"
    /\ CallsMade < MaxCalls
    /\ IF writerClosed(wfw[s])
       THEN /\ res' = [res EXCEPT ![s] = Returned(s, "Close", "errWriteClosed")]
            /\ UNCHANGED <<wf, sinks, wfw, given>>
       ELSE \E chunk \in FlushOutputs, ok \in 0..2 :
               LET r  == Emit(wf.fwerr, wf.tw, chunk, ok)
                   e1 == IF r.err THEN "errSinkWrite" ELSE "nil"
               IN  /\ wfw' = [wfw EXCEPT ![s] = fwNil(wfw[s])]
                   /\ wf' = [wf EXCEPT !.tw = r.tw, !.fwerr = r.err]
                   /\ given' = [given EXCEPT ![wf.w] =
                         IF wf.fwerr THEN @ ELSE @ \o chunk]
                   /\ IF ~trailerOK(r.tw.p)
                      THEN /\ sinks' = [sinks EXCEPT ![wf.w] = SinkWrite(@, r.out, s)]
                           /\ res' = [res EXCEPT ![s] =
                                [Returned(s, "Close", "errInternal") EXCEPT
                                   !.open = TRUE, !.flushErr = e1, !.trailer = r.tw.p]]
                      ELSE \E err2 \in {"nil", "errSinkClose"} :
                           /\ sinks' = [sinks EXCEPT ![wf.w] =
                                [SinkWrite(@, r.out, s) EXCEPT !.closes = @ + 1]]
                           /\ res' = [res EXCEPT ![s] =
                                [Returned(s, "Close", IF e1 # "nil" THEN e1 ELSE err2)
                                   EXCEPT !.open = TRUE, !.flushErr = e1,
                                          !.trailer = r.tw.p, !.sinkClosed = TRUE,
                                          !.closeErr = err2]]
    /\ closed' = [closed EXCEPT ![s] = TRUE]
    /\ UNCHANGED <<pc, kind, lvl, wp, tws, err1, writers, flateWriterPools,
                   readers, flateReaderPool, puts, twVars, rtVars>>

(***************************************************************************)
(* Transient read stream.  A flate reader is bound to the source of stream *)
(* src followed by tail; st is its sticky state: "open", "eof" after it    *)
(* returned io.EOF, "err" after it returned another error.                 *)
(***************************************************************************)
decompressNoContextTakeover(s) ==
    /\ NextToOpen(s)
    /\ \E i \in flateReaderPool \cup {0} :
          LET fr == IF i = 0 THEN NewId(readers) ELSE i
          IN  /\ flateReaderPool' = PoolGet(flateReaderPool, i)
              /\ readers' = [readers EXCEPT ![fr] = flateReaderReset(@, s)]
              /\ wfw' = [wfw EXCEPT ![s] = fr]
    /\ kind' = [kind EXCEPT ![s] = "dr"]
    /\ pc' = [pc EXCEPT ![s] = "ready"]
    /\ UNCHANGED <<lvl, wp, tws, sinks, err1, res, closed, writers,
                   flateWriterPools, wf, puts, given, twVars, rtVars>>

\* the results r.fr.Read(p) can have on a reader in state st
ReadOutcomes(st) ==
    CASE st = "open" -> {"nil", "EOF", "errCorrupt"}
      [] st = "eof"  -> {"EOF"}
      [] st = "err"  -> {"errCorrupt"}

\* the error r.fr.Close() returns on a reader in state st
CloseOutcome(st) == IF st = "err" THEN "errCorrupt" ELSE "nil"

flateReadWrapperRead(s) ==
    /\ pc[s] = "ready" /\ kind[s] = "dr"
    /\ CallsMade < MaxCalls
    /\ IF readerClosed(wfw[s])
       THEN /\ res' = [res EXCEPT ![s] = Returned(s, "Read", "ErrClosedPipe")]
            /\ UNCHANGED <<readers, flateReaderPool, wfw, closed, puts>>
       ELSE \E err \in ReadOutcomes(readers[wfw[s]].st) :
               LET fr == wfw[s]
                   st == CASE err = "nil" -> "open" [] err = "EOF" -> "eof"
                           [] OTHER -> "err"
               IN  /\ res' = [res EXCEPT ![s] =
                         [Returned(s, "Read", err) EXCEPT !.open = TRUE]]
                   /\ IF err = "EOF"
                      THEN \* r.Close()
                           /\ readers' = [readers EXCEPT ![fr].st = st,
                                                         ![fr].closes = @ + 1,
                                                         ![fr].hist = @ \cup {s}]
                           /\ flateReaderPool' = PoolPut(flateReaderPool, fr)
                           /\ puts' = [puts EXCEPT ![s] = @ + 1]
                           /\ wfw' = [wfw EXCEPT ![s] = frNil(wfw[s])]
                           /\ closed' = [closed EXCEPT ![s] = TRUE]
                      ELSE /\ readers' = [readers EXCEPT ![fr].st = st,
                                 ![fr].hist = IF err = "nil" THEN @ \cup {s} ELSE @]
                           /\ UNCHANGED <<flateReaderPool, wfw, closed, puts>>
    /\ UNCHANGED <<pc, kind, lvl, wp, tws, sinks, err1, writers,
                   flateWriterPools, wf, given, twVars, rtVars>>

flateReadWrapperClose(s) ==
    /\ pc[s] = "ready" /\ kind[s] = "dr"
    /\ CallsMade < MaxCalls
    /\ IF readerClosed(wfw[s])
       THEN /\ res' = [res EXCEPT ![s] = Returned(s, "Close", "ErrClosedPipe")]
            /\ UNCHANGED <<readers, flateReaderPool, wfw, puts>>
       ELSE LET fr == wfw[s]
            IN  /\ res' = [res EXCEPT ![s] =
                      [Returned(s, "Close", CloseOutcome(readers[fr].st))
                         EXCEPT !.open = TRUE]]
                /\ readers' = [readers EXCEPT ![fr].closes = @ + 1]
                /\ flateReaderPool' = PoolPut(flateReaderPool, fr)
                /\ puts' = [puts EXCEPT ![s] = @ + 1]
                /\ wfw' = [wfw EXCEPT ![s] = frNil(wfw[s])]
    /\ closed' = [closed EXCEPT ![s] = TRUE]
    /\ UNCHANGED <<pc, kind, lvl, wp, tws, sinks, err1, writers,
                   flateWriterPools, wf, given, twVars, rtVars>>

\* the calls on a transient write stream
TransientWrite(s) ==
    \/ flateWriteWrapperWrite(s)
    \/ flateWriteWrapperCloseFlushPut(s)
    \/ flateWriteWrapperCloseFinish(s)

\* the calls on a persistent write stream
PersistentWrite(s) ==
    \/ flateTakeoverWriteWrapperWrite(s)
    \/ flateTakeoverWriteWrapperClose(s)

\* the calls on a transient read stream
TransientRead(s) ==
    \/ flateReadWrapperRead(s)
    \/ flateReadWrapperClose(s)

\* write streams of both modes, the transient ones at the default level
NextW ==
    \E s \in Streams :
       \/ compressNoContextTakeover(s, defaultCompressionLevel)
       \/ TransientWrite(s)
       \/ newCompressionWriter(s)
       \/ PersistentWrite(s)

SpecW == Init /\ [][NextW]_vars

\* transient write streams at the levels of Levels, which have a pool each
NextPools ==
    \E s \in Streams :
       \/ \E level \in Levels : compressNoContextTakeover(s, level)
       \/ TransientWrite(s)

SpecPools == Init /\ [][NextPools]_vars

\* transient streams, write streams at the default level and read streams,
\* which share the pool of that level and the reader pool
Next ==
    \E s \in Streams :
       \/ compressNoContextTakeover(s, defaultCompressionLevel)
       \/ TransientWrite(s)
       \/ decompressNoContextTakeover(s)
       \/ TransientRead(s)

Spec == Init /\ [][Next]_vars

(***************************************************************************)
(* Round trips on one connection direction: each message is written to a   *)
(* write stream, and the bytes its sink received are the source of the     *)
(* read stream, in transient mode (compressNoContextTakeover and           *)
(* decompressNoContextTakeover) or in persistent mode (one                 *)
(* contextTakeoverWriterFactory and one contextTakeoverReaderFactory).     *)
(* The sink accepts every byte.                                            *)
(***************************************************************************)
RTReturned(op, err) == [op |-> op, err |-> err, calls |-> rtRes.calls + 1]

\* compressNoContextTakeover(w, level) / f.newCompressionWriter(w, level)
RTOpenWrite ==
    /\ rtPhase = "idle"
    /\ rtMsgs < MaxMsgs
    /\ isValidCompressionLevel(rtLevel)
    /\ IF rtMode = "transient"
       THEN \* a new compressor, or a pooled one reset: fw.Reset(tw)
            /\ rtTw' = ZeroTW
            /\ rtFw' = NewFlateWriter(rtLevel)
       ELSE /\ rtTw' = truncWriterRebind(rtTw)
            /\ rtFw' = rtFw
    /\ rtSink' = <<>>
    /\ rtW' = 1
    /\ rtPayload' = <<>>
    /\ rtWrites' = 0
    /\ rtPhase' = "writing"
    /\ UNCHANGED <<rtMode, rtLevel, rtWritten, rtMsgs, rtFr, rtR, rtWindow, rtAll, rtOut,
                   rtEOF, rtClosed, rtRes, mainVars, twVars>>

\* flateWriteWrapper.Write(p) / flateTakeoverWriteWrapper.Write(p)
RTWrite ==
    /\ rtPhase = "writing"
    /\ rtWrites < MaxWrites
    /\ ~writerClosed(rtW)
    /\ \E p \in SeqUpTo(PayloadByte, MaxPayload - Len(rtPayload)) :
          /\ rtFw' = FlateWrite(rtFw, p)
          /\ rtPayload' = rtPayload \o p
          /\ rtWritten' = IF rtMode = "transient" THEN rtWritten ELSE rtWritten \o p
    /\ rtWrites' = rtWrites + 1
    /\ rtRes' = RTReturned("Write", "nil")
    /\ UNCHANGED <<rtMode, rtLevel, rtPhase, rtMsgs, rtTw, rtSink, rtW, rtFr, rtR,
                   rtWindow, rtAll, rtOut, rtEOF, rtClosed, mainVars, twVars>>

\* flateWriteWrapper.Close() / flateTakeoverWriteWrapper.Close()
RTCloseWrite ==
    /\ rtPhase = "writing"
    /\ ~writerClosed(rtW)
    /\ LET r == truncWriterWrite(rtTw, FlateFlushOutput(rtFw), 2)
       IN  /\ rtFw' = FlateFlushed(rtFw)
           /\ rtSink' = rtSink \o r.out
           /\ rtW' = fwNil(rtW)
           /\ IF ~trailerOK(r.tw.p)
              THEN /\ rtRes' = RTReturned("Close", "errInternal")
                   /\ rtTw' = r.tw
              ELSE /\ rtRes' = RTReturned("Close", "nil")
                   /\ rtTw' = IF rtMode = "transient" THEN ZeroTW ELSE r.tw
    /\ rtPhase' = "wire"
    /\ UNCHANGED <<rtMode, rtLevel, rtWritten, rtMsgs, rtPayload, rtWrites, rtFr, rtR,
                   rtWindow, rtAll, rtOut, rtEOF, rtClosed, mainVars, twVars>>

\* decompressNoContextTakeover(r) / f.newDeCompressionReader(r), r the bytes
\* the sink of the message received
RTOpenRead ==
    /\ rtPhase = "wire"
    /\ rtFr' = IF rtMode = "transient" THEN FlateReset(rtSink \o tail, <<>>)
               ELSE takeoverReset(rtSink, rtWindow)
    /\ rtR' = IF rtMode = "transient" THEN 1 ELSE rtR
    /\ rtOut' = <<>>
    /\ rtEOF' = FALSE
    /\ rtClosed' = FALSE
    /\ rtRes' = [op |-> "none", err |-> "nil", calls |-> 0]
    /\ rtPhase' = "reading"
    /\ UNCHANGED <<rtMode, rtLevel, rtWritten, rtMsgs, rtPayload, rtWrites, rtFw, rtTw,
                   rtSink, rtW, rtWindow, rtAll, mainVars, twVars>>

\* flateReadWrapper.Read(p) / flateTakeoverReadWrapper.Read(p), len(p) = k
RTRead(k) ==
    /\ rtPhase = "reading"
    /\ rtRes.calls < MaxReads
    /\ IF readerClosed(rtR)
       THEN /\ rtRes' = RTReturned("Read", "ErrClosedPipe")
            /\ UNCHANGED <<rtFr, rtR, rtWindow, rtAll, rtOut, rtEOF, rtClosed>>
       ELSE LET r == FlateRead(rtFr, k)
            IN  /\ rtFr' = r.fr
                /\ rtOut' = rtOut \o r.data
                /\ rtWindow' = IF rtMode = "transient" THEN rtWindow
                               ELSE AppendWindow(rtWindow, r.data)
                /\ rtAll' = IF rtMode = "transient" THEN rtAll ELSE rtAll \o r.data
                /\ rtRes' = RTReturned("Read", r.err)
                /\ rtEOF' = (rtEOF \/ r.err = "EOF")
                /\ rtClosed' = (rtClosed \/ r.err = "EOF")
                \* r.Close() at io.EOF: only flateReadWrapper.Close sets fr to nil
                /\ rtR' = IF r.err = "EOF" /\ rtMode = "transient"
                          THEN frNil(rtR) ELSE rtR
    /\ UNCHANGED <<rtMode, rtLevel, rtWritten, rtPhase, rtMsgs, rtPayload, rtWrites, rtFw,
                   rtTw, rtSink, rtW, mainVars, twVars>>

\* flateReadWrapper.Close() / flateTakeoverReadWrapper.Close()
RTCloseRead ==
    /\ rtPhase = "reading"
    /\ rtRes.calls < MaxReads
    /\ IF readerClosed(rtR)
       THEN /\ rtRes' = RTReturned("Close", "ErrClosedPipe")
            /\ rtR' = rtR
       ELSE /\ rtRes' = RTReturned("Close", FlateClose(rtFr))
            /\ rtR' = IF rtMode = "transient" THEN frNil(rtR) ELSE rtR
    /\ rtClosed' = TRUE
    /\ UNCHANGED <<rtMode, rtLevel, rtWritten, rtPhase, rtMsgs, rtPayload, rtWrites, rtFw,
                   rtTw, rtSink, rtW, rtFr, rtWindow, rtAll, rtOut, rtEOF, mainVars,
                   twVars>>

\* the message has been read to its end: the connection goes on to the next
RTNextMessage ==
    /\ rtPhase = "reading"
    /\ rtEOF
    /\ rtMsgs' = rtMsgs + 1
    /\ rtPhase' = "idle"
    /\ UNCHANGED <<rtMode, rtLevel, rtWritten, rtPayload, rtWrites, rtFw, rtTw, rtSink, rtW,
                   rtFr, rtR, rtWindow, rtAll, rtOut, rtEOF, rtClosed, rtRes,
                   mainVars, twVars>>

NextRT ==
    \/ RTOpenWrite
    \/ RTWrite
    \/ RTCloseWrite
    \/ RTOpenRead
    \/ \E k \in 1..MaxBuf : RTRead(k)
    \/ RTCloseRead
    \/ RTNextMessage

SpecRT == InitRT /\ [][NextRT]_vars

(***************************************************************************)
(* A truncWriter on its own, written to in chunks.                         *)
(***************************************************************************)
\* one call w.Write(p) on a sink that accepts every byte
TWWrite ==
    /\ uchunks < MaxChunks
    /\ \E p \in SeqUpTo(Byte, MaxTotal - Len(uwritten)) :
          LET r == truncWriterWrite(utw, p, 2)
          IN  /\ utw' = r.tw
              /\ usink' = usink \o r.out
              /\ uwritten' = uwritten \o p
              /\ uret' = [n |-> r.ret, err |-> r.err, len |-> Len(p), before |-> utw.n]
              /\ uchunks' = uchunks + 1
    /\ UNCHANGED <<mainVars, rtVars>>

TWNext == TWWrite

SpecTW == Init /\ [][TWNext]_vars

ClosedOpenStream(s) == res[s].op = "Close" /\ res[s].open

\* C3: Close of an open write stream, transient or persistent, returns the
\* internal-fault error exactly when the 4-byte holding buffer differs from
\* {0x00, 0x00, 0xff, 0xff} at the time of the check.
C3_InternalFault ==
    \A s \in Streams :
        ClosedOpenStream(s) =>
            (res[s].err = "errInternal" <=> res[s].trailer # Marker)

\* a persistent stream closed with the internal fault and a transient one
\* closed without error
C3_Witness ==
    \E s, t \in Streams :
        /\ kind[s] = "tcw" /\ ClosedOpenStream(s) /\ res[s].err = "errInternal"
        /\ kind[t] = "cw" /\ ClosedOpenStream(t) /\ res[t].err = "nil"
        /\ res[t].trailer = Marker

\* C4: once Close of a write stream has returned, every later Write or Close
\* on it returns errWriteClosed and changes neither the sinks, the pools,
\* the compressors nor the truncWriters.
C4_ClosedWriteStream ==
    [][\A s \in Streams :
          (closed[s] /\ res'[s].calls # res[s].calls) =>
              /\ res'[s].err = "errWriteClosed"
              /\ sinks' = sinks
              /\ flateWriterPools' = flateWriterPools
              /\ writers' = writers
              /\ wf' = wf
              /\ tws' = tws]_vars

\* a second call on a stream whose Close has returned
C4_Witness ==
    \E s \in Streams :
        closed[s] /\ res[s].calls = 2 /\ res[s].err = "errWriteClosed"

\* C5: once Close of a transient read stream has returned, or one of its
\* Reads has returned io.EOF, every later Read or Close on it returns
\* io.ErrClosedPipe and leaves the reader pool and the readers alone.
C5_ClosedReadStream ==
    [][\A s \in Streams :
          (kind[s] = "dr" /\ closed[s] /\ res'[s].calls # res[s].calls) =>
              /\ res'[s].err = "ErrClosedPipe"
              /\ flateReaderPool' = flateReaderPool
              /\ readers' = readers]_vars

\* an explicit Close after the eager close at end-of-stream
C5_Witness ==
    \E s \in Streams :
        /\ kind[s] = "dr" /\ closed[s] /\ res[s].calls = 2
        /\ res[s].op = "Close" /\ res[s].err = "ErrClosedPipe"
        /\ readers[1].closes = 1 /\ readers[1].st = "eof"

\* what has been read is the beginning of q
IsPrefix(p, q) == Len(p) <= Len(q) /\ p = TakeFirst(q, Len(p))

\* C2: in both modes, at every level and for every message of the
\* connection, the write stream closes without error and the read stream fed
\* with the bytes the sink received yields the payload: never an error other
\* than io.EOF, only bytes of the payload, and all of them once io.EOF is
\* returned.
C2_RoundTrip ==
    /\ rtPhase = "wire" => rtRes.err = "nil"
    /\ rtPhase = "reading" =>
          /\ rtRes.err \in {"nil", "EOF", "ErrClosedPipe"}
          /\ IsPrefix(rtOut, rtPayload)
          /\ rtEOF => rtOut = rtPayload

\* the second message of a persistent connection, whose first symbol copies
\* a byte of the first message, has been read to its end
C2_Witness ==
    /\ rtMode = "persistent" /\ rtMsgs = 1 /\ rtPhase = "reading"
    /\ rtEOF /\ rtPayload # <<>> /\ rtOut = rtPayload
    /\ rtSink[2] > EndOfBlock

\* C6: once Close of a persistent read stream has returned, or one of its
\* Reads has returned io.EOF, every later Read or Close on it returns
\* io.ErrClosedPipe.
C6_ClosedTakeoverReadStream ==
    [][(rtMode = "persistent" /\ rtPhase = "reading" /\ rtClosed
          /\ rtRes'.calls # rtRes.calls) => rtRes'.err = "ErrClosedPipe"]_vars

\* C7: Close of an open write stream returns the first error in the order
\* flush, trailer validation, sink close.
C7_FirstErrorOrder ==
    \A s \in Streams :
        ClosedOpenStream(s) =>
            res[s].err = IF res[s].flushErr # "nil" THEN res[s].flushErr
                         ELSE IF res[s].trailer # Marker THEN "errInternal"
                         ELSE res[s].closeErr

\* C8: Close of an open write stream always calls Close of the sink.
C8_SinkCloseAttempted ==
    \A s \in Streams : ClosedOpenStream(s) => res[s].sinkClosed

\* C9: a compressor made for level L is only ever in the pool of level L
\* and only ever held by a stream opened at level L.
C9_PoolIsolation ==
    /\ \A k \in PoolIndices : \A i \in flateWriterPools[k] :
          writers[i].made /\ writers[i].level - minCompressionLevel = k
    /\ \A s \in Streams :
          (kind[s] = "cw" /\ wfw[s] # 0) => writers[wfw[s]].level = lvl[s]

\* a stream holds a compressor of its level while a compressor of the other
\* level lies free in its pool
C9_Witness ==
    \E s \in Streams :
        /\ kind[s] = "cw" /\ wfw[s] # 0
        /\ \E i \in Streams :
              /\ writers[i].made /\ writers[i].level # lvl[s]
              /\ i \in flateWriterPools[writers[i].level - minCompressionLevel]

\* C10: between the acquire of a pooled instance and its release no other
\* stream holds that instance, and the instance is not in its pool, where a
\* Get could hand it out again.
C10_ExclusiveInstance ==
    /\ \A s, t \in Streams :
          (s # t /\ kind[s] = kind[t] /\ wfw[s] # 0 /\ wfw[t] # 0) => wfw[s] # wfw[t]
    /\ \A s \in Streams :
          /\ (kind[s] = "cw" /\ wfw[s] # 0) =>
                \A k \in PoolIndices : wfw[s] \notin flateWriterPools[k]
          /\ (kind[s] = "dr" /\ wfw[s] # 0) => wfw[s] \notin flateReaderPool

\* stream 2 holds the compressor stream 1 has put back, while the Close of
\* stream 1 is still running
C10_Witness ==
    /\ kind[1] = "cw" /\ pc[1] = "released"
    /\ kind[2] = "cw" /\ wfw[2] = 1

\* C11: in persistent mode the window is never longer than the cap and is
\* the last min(cap, total) bytes of all the bytes the Reads of the
\* factory's streams have returned so far, over all messages.
C11_SlidingWindowCap ==
    rtMode = "persistent" =>
        /\ Len(rtWindow) <= maxWindowBits
        /\ rtWindow = TakeLast(rtAll, Min(maxWindowBits, Len(rtAll)))

\* a Read of the second message has returned one byte: more bytes than the
\* cap have been read, and the window holds a byte of each message
C11_Witness ==
    /\ rtMode = "persistent" /\ rtMsgs = 1 /\ rtPhase = "reading"
    /\ rtRes.op = "Read" /\ Len(rtOut) = 1
    /\ Len(rtAll) > maxWindowBits
    /\ Len(rtWindow) = maxWindowBits

\* C19: when the sink accepts every byte, truncWriter.Write(p) returns
\* len(p) and no error, whatever the count of held bytes before the call.
C19_ReturnsLen ==
    uchunks > 0 => (~uret.err /\ uret.n = uret.len)

\* C12: a Read of a transient read stream that returns io.EOF has, in the
\* same call, closed the decompressor, put it into the reader pool and set
\* the stream's field to nil, with no Close by the caller.
C12_EagerRelease ==
    [][\A s \in Streams :
          (kind[s] = "dr" /\ res'[s].calls # res[s].calls
             /\ res'[s].op = "Read" /\ res'[s].err = "EOF") =>
              /\ wfw[s] # 0
              /\ readers'[wfw[s]].closes = readers[wfw[s]].closes + 1
              /\ wfw[s] \in flateReaderPool'
              /\ wfw[s] \notin flateReaderPool
              /\ wfw'[s] = 0
              /\ puts'[s] = 1]_vars

\* the only call on a read stream was a Read that returned io.EOF, and the
\* decompressor is in the pool
C12_Witness ==
    \E s \in Streams :
        /\ kind[s] = "dr" /\ res[s].calls = 1
        /\ res[s].op = "Read" /\ res[s].err = "EOF"
        /\ wfw[s] = 0 /\ flateReaderPool # {}

\* C13: the instance of a transient stream is put into the pool once when a
\* Read of the stream has returned io.EOF or a Close of it has gone past the
\* Put, and not at all otherwise; never twice.
C13_ReleasedOnce ==
    \A s \in Streams :
        kind[s] \in {"cw", "dr"} =>
            /\ puts[s] <= 1
            /\ puts[s] = 1 <=> (closed[s] \/ pc[s] = "released")

\* a write stream closed before anything was written has released its
\* compressor, and a read stream whose Read returned an error other than
\* io.EOF, left without Close, has not released its decompressor
C13_Witness ==
    \E s, t \in Streams :
        /\ kind[s] = "cw" /\ ClosedOpenStream(s) /\ res[s].calls = 1 /\ puts[s] = 1
        /\ kind[t] = "dr" /\ res[t].op = "Read" /\ res[t].err = "errCorrupt"
        /\ puts[t] = 0 /\ wfw[t] # 0 /\ wfw[t] \notin flateReaderPool

\* C14: Close of an open transient write stream puts the compressor into
\* the pool of the stream's level right after the flush, before the trailer
\* check and the Close of the sink, and every such Close that has returned
\* has done so, whatever the flush, the check and the sink's Close gave.
C14_PutBeforeValidation ==
    /\ [][\A s \in Streams :
             (kind[s] = "cw" /\ pc[s] = "ready" /\ pc'[s] = "released") =>
                 /\ wfw[s] \in flateWriterPools'[lvl[s] - minCompressionLevel]
                 /\ wfw[s] \notin flateWriterPools[lvl[s] - minCompressionLevel]
                 /\ puts'[s] = puts[s] + 1
                 /\ sinks'[s].closes = sinks[s].closes]_vars
    /\ [](\A s \in Streams :
             (kind[s] = "cw" /\ (pc[s] = "released" \/ ClosedOpenStream(s))) =>
                 /\ puts[s] = 1
                 /\ pc[s] = "released" => sinks[s].closes = 0)

\* a Close whose flush failed and whose trailer check failed, so that the
\* sink was not closed, has put the compressor into the pool of its level
C14_Witness ==
    \E s \in Streams :
        /\ kind[s] = "cw" /\ ClosedOpenStream(s)
        /\ res[s].flushErr # "nil" /\ res[s].err = "errInternal"
        /\ ~res[s].sinkClosed /\ puts[s] = 1
        /\ lvl[s] = maxCompressionLevel
        /\ flateWriterPools[maxCompressionLevel - minCompressionLevel] # {}

\* C17: the instance a transient stream holds, new or from the pool, is
\* bound to the stream's own message: a compressor writes to the stream's
\* truncWriter and has taken in bytes of this stream only, the truncWriter
\* is the zero one until the first call, a decompressor reads the stream's
\* source followed by tail with no dictionary and has put out bytes of this
\* stream only; and the bytes a sink has received come from calls on its
\* own stream.
C17_BoundToOwnMessage ==
    \A s \in Streams :
        /\ (kind[s] = "cw" /\ wfw[s] # 0) =>
              /\ writers[wfw[s]].dst = s
              /\ writers[wfw[s]].hist \subseteq {s}
              /\ res[s].calls = 0 => (tws[s] = ZeroTW /\ ~writers[wfw[s]].err)
        /\ (kind[s] = "dr" /\ wfw[s] # 0) =>
              /\ readers[wfw[s]].src = s
              /\ readers[wfw[s]].suffix = Marker \o <<1, 0, 0, 255, 255>>
              /\ readers[wfw[s]].dict = <<>>
              /\ readers[wfw[s]].hist \subseteq {s}
              /\ res[s].calls = 0 => readers[wfw[s]].st = "open"
        /\ sinks[s].from \subseteq {s}

\* the second stream has closed with the compressor the first stream had put
\* into the pool, and each sink has received bytes
C17_Witness ==
    /\ kind[1] = "cw" /\ kind[2] = "cw"
    /\ writers[1].made /\ ~writers[2].made /\ writers[1].dst = 2
    /\ sinks[1].data # <<>> /\ sinks[2].data # <<>>
    /\ sinks[2].from = {2}

\* C18: a Close of a persistent write stream that does not return the
\* internal-fault error has seen at least 4 bytes handed to the truncWriter
\* during its own message, the last 4 of them being the marker.
C18_OwnTrailerOnly ==
    \A s \in Streams :
        (kind[s] = "tcw" /\ ClosedOpenStream(s) /\ res[s].err # "errInternal") =>
            /\ Len(given[s]) >= 4
            /\ TakeLast(given[s], 4) = Marker

\* C15: newCompressionWriter leaves the factory's compressor and the held
\* bytes of its truncWriter as they are and sets the count of held bytes to
\* 0; Close leaves the compressor in the factory.  So at every moment the
\* history of the compressor is that of all the bytes written through the
\* factory, over all messages.
C15_CompressorKept ==
    /\ [][(rtMode = "persistent" /\ rtPhase = "idle" /\ rtPhase' = "writing") =>
             /\ rtFw' = rtFw
             /\ rtTw'.p = rtTw.p
             /\ rtTw'.n = 0]_vars
    /\ [][(rtMode = "persistent" /\ rtPhase = "writing" /\ rtPhase' = "wire") =>
             /\ rtFw'.level = rtFw.level
             /\ rtFw'.hist = Reach(rtWritten)]_vars
    /\ [](rtMode = "persistent" =>
             Reach(rtFw.hist \o rtFw.pending) = Reach(rtWritten))

\* the second message of a persistent connection has been opened: the
\* compressor has the first message as history, and the truncWriter holds
\* the marker of the first message with a count of 0
C15_Witness ==
    /\ rtMode = "persistent" /\ rtMsgs = 1 /\ rtPhase = "writing"
    /\ rtWrites = 0 /\ rtFw.hist # <<>> /\ rtFw.hist = Reach(rtWritten)
    /\ rtTw.n = 0 /\ rtTw.p = Marker

\* the bytes a Read step has added to what the message has given
NewlyRead == DropFirst(rtOut', Len(rtOut))

=============================================================================
